---- MODULE Spec2Model ----
(***************************************************************************)
(* Model of src/cpp_misc/backtrack.cpp: the predicates reject and accept,  *)
(* the generators first_child and next_child with their static buffers,    *)
(* and the three searches backtrack_rec, backtrack_stk and backtrack_que,  *)
(* run one after the other from the same root as main() would with its     *)
(* three calls enabled.                                                    *)
(*                                                                         *)
(* A candidate (std::string) is a sequence of character codes (ASCII).     *)
(***************************************************************************)
EXTENDS Integers, Sequences, FiniteSets, TLC

\* ------------------------------------------------------------- constants

\* The literal 5 of reject, accept and first_child; the literal 3 of accept.
MAX_LEN == 5
MIN_LEN == 3

\* std::string::npos, the largest size_t, written as its two's complement.
NPOS == -1

\* ---------------------------------------------------------------- bounds

\* Roots of the searches: every string over RootChars whose length is
\* between MAX_LEN - MaxDepth and MAX_LEN + MaxOver, and the ExtraRoots. A
\* root of length n over the alphabet spans 1 + 36 + ... + 36^(5 - n)
\* candidates.
MaxDepth == 1
MaxOver == 1

\* 'b', '1', '?'
RootChars == {98, 49, 63}

\* "b12", "9999"
ExtraRoots == { <<98, 49, 50>>, <<57, 57, 57, 57>> }

\* Arguments of the single calls: every string over FnChars of length at
\* most MaxFnLen.
MaxFnLen == 6

\* 'a', 'b', 'c', '1', '9', '?'
FnChars == {97, 98, 99, 49, 57, 63}

\* print_numbers is called with n = 0..MaxN and with the MaxBack + 1
\* largest values of unsigned long.
MaxN == 66
MaxBack == 7

\* Arguments of the single calls as well: a string over FnChars of length
\* at most MaxStem followed by one of LastChars: a-z, 0-9, and the
\* characters next to them in ASCII, '`', '{', '/', ':', and 'A', '?'.
MaxStem == 1
LastChars == (97..122) \cup (48..57) \cup {96, 123, 47, 58, 65, 63}

\* ------------------------------------------------------------ characters

\* Mutant of valid_chars: the digits before the letters.
valid_chars_digits_first ==
  << 48, 49, 50, 51, 52, 53, 54, 55, 56, 57,
     97, 98, 99, 100, 101, 102, 103, 104, 105, 106, 107, 108, 109,
     110, 111, 112, 113, 114, 115, 116, 117, 118, 119, 120, 121, 122 >>

\* "abcdefghijklmnopqrstuvwxyz0123456789"
valid_chars ==
  << 97, 98, 99, 100, 101, 102, 103, 104, 105, 106, 107, 108, 109,
     110, 111, 112, 113, 114, 115, 116, 117, 118, 119, 120, 121, 122,
     48, 49, 50, 51, 52, 53, 54, 55, 56, 57 >>

\* std::islower and std::isdigit in the classic "C" locale.
islower(ch) == ch \in 97..122
isdigit(ch) == ch \in 48..57

\* std::count(c.begin(), c.end(), ch)
count(c, ch) == Cardinality({i \in 1..Len(c) : c[i] = ch})

\* std::count_if(c.begin(), c.end(), isdigit)
count_if_isdigit(c) == Cardinality({i \in 1..Len(c) : isdigit(c[i])})

\* ------------------------------------------------------------ predicates

\* Mutant of reject: the count constraints applied from length 4 on.
reject_from_4(c) ==
  IF \E i \in 1..Len(c) : ~islower(c[i]) /\ ~isdigit(c[i])
  THEN TRUE
  ELSE IF Len(c) >= 4
       THEN IF count(c, 98) < 1 \/ count_if_isdigit(c) < 2
            THEN TRUE
            ELSE FALSE
       ELSE FALSE

\* Mutant of reject: the count constraints applied at length 5 only.
reject_at_5_only(c) ==
  IF \E i \in 1..Len(c) : ~islower(c[i]) /\ ~isdigit(c[i])
  THEN TRUE
  ELSE IF Len(c) = 5
       THEN IF count(c, 98) < 1 \/ count_if_isdigit(c) < 2
            THEN TRUE
            ELSE FALSE
       ELSE FALSE

\* Mutant of reject: the characters are not checked.
reject_counts_only(c) ==
  IF Len(c) >= 5
  THEN IF count(c, 98) < 1 \/ count_if_isdigit(c) < 2
       THEN TRUE
       ELSE FALSE
  ELSE FALSE

reject(c) ==
  IF \E i \in 1..Len(c) : ~islower(c[i]) /\ ~isdigit(c[i])
  THEN TRUE
  ELSE IF Len(c) >= 5
       THEN IF count(c, 98) < 1 \/ count_if_isdigit(c) < 2
            THEN TRUE
            ELSE FALSE
       ELSE FALSE

\* Mutant of accept: one digit is enough.
accept_one_digit(c) ==
  [ pre |-> (reject(c) = FALSE),
    ret |-> IF /\ Len(c) >= 3
               /\ Len(c) <= 5
               /\ count(c, 98) >= 1
               /\ count_if_isdigit(c) >= 1
            THEN TRUE
            ELSE FALSE ]

\* accept's result; pre is the value of the asserted expression.
accept(c) ==
  [ pre |-> (reject(c) = FALSE),
    ret |-> IF /\ Len(c) >= 3
               /\ Len(c) <= 5
               /\ count(c, 98) >= 1
               /\ count_if_isdigit(c) >= 2
            THEN TRUE
            ELSE FALSE ]

\* ------------------------------------------------------------ generators

\* Pointer values: what first_child and next_child return.
nullptr == "nullptr"
p_child_buf == "&child"
p_sibling_buf == "&sibling"
out_of_range == "out_of_range"

\* *p, given the contents of the two static buffers.
Deref(p, child_buf, sibling_buf) ==
  IF p = p_child_buf THEN child_buf ELSE sibling_buf

\* Mutant of first_child: > for >=.
first_child_off_by_one(c, child_buf) ==
  IF Len(c) > 5
  THEN [ret |-> nullptr, child |-> child_buf]
  ELSE [ret |-> p_child_buf, child |-> c \o <<valid_chars[1]>>]

\* Mutant of first_child: the length tested is that of the static child.
first_child_tests_buffer(c, child_buf) ==
  IF Len(child_buf) >= 5
  THEN [ret |-> nullptr, child |-> child_buf]
  ELSE [ret |-> p_child_buf, child |-> c \o <<valid_chars[1]>>]

\* Mutant of first_child: no child from length 4 on.
first_child_stops_early(c, child_buf) ==
  IF Len(c) >= 4
  THEN [ret |-> nullptr, child |-> child_buf]
  ELSE [ret |-> p_child_buf, child |-> c \o <<valid_chars[1]>>]

\* Mutant of first_child: valid_chars.back() for valid_chars.front().
first_child_appends_back(c, child_buf) ==
  IF Len(c) >= 5
  THEN [ret |-> nullptr, child |-> child_buf]
  ELSE [ret |-> p_child_buf, child |-> c \o <<valid_chars[Len(valid_chars)]>>]

\* first_child(c), with child_buf the content of the static `child` before
\* the call: the returned pointer and the content of `child` after the call.
first_child(c, child_buf) ==
  IF Len(c) >= 5
  THEN [ret |-> nullptr, child |-> child_buf]
  ELSE [ret |-> p_child_buf, child |-> c \o <<valid_chars[1]>>]

\* valid_chars.find(ch): the 0-based index of the first ch, or npos.
find(ch) ==
  IF \E i \in 1..Len(valid_chars) : valid_chars[i] = ch
  THEN (CHOOSE i \in 1..Len(valid_chars) :
          /\ valid_chars[i] = ch
          /\ \A j \in 1..(i - 1) : valid_chars[j] # ch) - 1
  ELSE NPOS

\* x + 1 in size_t: npos + 1 wraps to 0.
size_plus_one(x) == IF x = NPOS THEN 0 ELSE x + 1

\* Mutant of next_child: the test for the last character of valid_chars is
\* missing.
next_child_no_end_test(c, sibling_buf) ==
  LET pos == size_plus_one(find(c[Len(c)]))
  IN  IF pos >= Len(valid_chars)
      THEN [ret |-> out_of_range, sibling |-> c]
      ELSE [ret |-> p_sibling_buf,
            sibling |-> [c EXCEPT ![Len(c)] = valid_chars[pos + 1]]]

\* Mutant of next_child: the + 1 is missing.
next_child_same_char(c, sibling_buf) ==
  IF c[Len(c)] = valid_chars[Len(valid_chars)]
  THEN [ret |-> nullptr, sibling |-> sibling_buf]
  ELSE LET pos == find(c[Len(c)])
       IN  IF pos = NPOS \/ pos >= Len(valid_chars)
           THEN [ret |-> out_of_range, sibling |-> c]
           ELSE [ret |-> p_sibling_buf,
                 sibling |-> [c EXCEPT ![Len(c)] = valid_chars[pos + 1]]]

\* next_child(c) for a non-empty c, with sibling_buf the content of the
\* static `sibling` before the call: what is returned (or thrown by
\* valid_chars.at) and the content of `sibling` after the call.
next_child(c, sibling_buf) ==
  IF c[Len(c)] = valid_chars[Len(valid_chars)]
  THEN [ret |-> nullptr, sibling |-> sibling_buf]
  ELSE LET pos == size_plus_one(find(c[Len(c)]))
       IN  IF pos >= Len(valid_chars)
           THEN [ret |-> out_of_range, sibling |-> c]
           ELSE [ret |-> p_sibling_buf,
                 sibling |-> [c EXCEPT ![Len(c)] = valid_chars[pos + 1]]]

\* ---------------------------------------------------------- unsigned long
\* src/c_misc/duff_device.c

\* An unsigned long of 64 bits (LP64) is a tuple of 4 digits in base Limb,
\* the most significant first.
Limb == 2^16
ULONG_MAX == << Limb - 1, Limb - 1, Limb - 1, Limb - 1 >>

\* The unsigned long of value x, for 0 <= x < Limb.
ulong_of(x) == << 0, 0, 0, x >>

\* u + k in unsigned long, for 0 <= k < Limb: modulo 2^64.
ulong_plus(u, k) ==
  LET s4 == u[4] + k
      s3 == u[3] + (s4 \div Limb)
      s2 == u[2] + (s3 \div Limb)
      s1 == u[1] + (s2 \div Limb)
  IN  << s1 % Limb, s2 % Limb, s3 % Limb, s4 % Limb >>

\* u < v.
ulong_less(u, v) ==
  \E d \in 1..4 : u[d] < v[d] /\ \A e \in 1..(d - 1) : u[e] = v[e]

\* u % 4: that of the last digit, Limb being a multiple of 4.
ulong_mod_4(u) == u[4] % 4

\* What k executions of printf("%4lu", i++) print, starting from i.
printf_i_plus_plus(i, k) == [j \in 1..k |-> ulong_plus(i, j - 1)]

\* ----------------------------------------------------------------- state

VARIABLES
  root,      \* the candidate the searches start from
  plan,      \* the searches main calls (its calls that are not commented
             \* out), always in the order rec, stk, que
  mode,      \* where main is: "init", "rec", "stk", "que", "done";
             \* "aborted" (an assert failed), "failed" (an exception
             \* reached main), "fn" (no search: a single call)
  calls,     \* backtrack_rec's call stack, outermost first
  stk,       \* backtrack_stk's std::stack, top last
  que,       \* backtrack_que's std::queue, front first
  child,     \* first_child's static std::string child
  sibling,   \* next_child's static std::string sibling
  out,       \* per search, the candidates written to std::cout, in order
  visit,     \* per search, the candidates reject was called on, in order
  expanded,  \* per search, the candidates first_child was called on, in order
  asserted,  \* per search, the candidates accept was called on, in order
  arg,       \* the argument of a single call of one function
  res,       \* the result of that call
  max_calls, \* the largest number of invocations of backtrack_rec that
             \* have been active at once
  round,     \* 1, or 2 when main runs its searches a second time
  prev,      \* in round 2, what each search emitted in round 1
  duff_n,    \* print_numbers' parameter n
  duff_i,    \* print_numbers' local i
  duff_i0,   \* the value of i in the first state of the behaviour
  duff_pc,   \* where print_numbers is: "idle" (not called), "switch", "while",
             \* "returned"
  printed    \* the numbers print_numbers has printed since the first state
             \* of the behaviour, in order

vars == << root, plan, mode, calls, stk, que, child, sibling, out, visit,
           expanded, asserted, arg, res, max_calls, round, prev,
           duff_n, duff_i, duff_i0, duff_pc, printed >>

duff == << duff_n, duff_i, duff_i0, duff_pc, printed >>

\* The strings of length n over chars.
StringsOfLen(chars, n) == [1..n -> chars]

\* r is a root the searches are run from.
IsRoot(r) ==
  \/ r \in ExtraRoots
  \/ \E n \in (MAX_LEN - MaxDepth)..(MAX_LEN + MaxOver) :
       r \in StringsOfLen(RootChars, n)

\* a is an argument the single calls are made on.
IsFnInput(a) ==
  \/ \E n \in 0..MaxFnLen : a \in StringsOfLen(FnChars, n)
  \/ \E n \in 0..MaxStem :
       \E stem \in StringsOfLen(FnChars, n), ch \in LastChars :
         a = Append(stem, ch)

Searches == {"rec", "stk", "que"}
NoRes == [fn |-> "none"]

\* main as written calls backtrack_rec only; the other two calls are there,
\* commented out.
Plans == { {"rec"}, {"stk"}, {"que"}, {"rec", "stk", "que"} }

Init ==
  /\ IsRoot(root)
  /\ plan \in Plans
  /\ mode = "init"
  /\ calls = <<>>
  /\ stk = <<>>
  /\ que = <<>>
  /\ child = <<>>
  /\ sibling = <<>>
  /\ out = [s \in Searches |-> <<>>]
  /\ visit = [s \in Searches |-> <<>>]
  /\ expanded = [s \in Searches |-> <<>>]
  /\ asserted = [s \in Searches |-> <<>>]
  /\ arg = <<>>
  /\ res = NoRes
  /\ max_calls = 0
  /\ round = 1
  /\ prev = [s \in Searches |-> <<>>]
  /\ duff_n = ulong_of(0)
  /\ duff_i = ulong_of(0)
  /\ duff_i0 = ulong_of(0)
  /\ duff_pc = "idle"
  /\ printed = <<>>

\* ------------------------------------------------------- backtrack_rec

\* A frame of backtrack_rec: its parameter c, its local c_child, and where
\* it is: "entry" (about to run from the top) or "call" (inside the
\* recursive call of line 373).
Frame(c) == [c |-> c, c_child |-> <<>>, pc |-> "entry"]

Top(s) == s[Len(s)]
Pop(s) == SubSeq(s, 1, Len(s) - 1)

\* main is between two statements: before its first call, or the search it
\* called has returned.
Returned ==
  \/ mode = "init"
  \/ mode = "rec" /\ calls = <<>>
  \/ mode = "stk" /\ stk = <<>>
  \/ mode = "que" /\ que = <<>>

\* The searches of main that come after the statement main is at.
Later ==
  IF mode = "init" THEN {"rec", "stk", "que"}
  ELSE IF mode = "rec" THEN {"stk", "que"}
  ELSE IF mode = "stk" THEN {"que"}
  ELSE {}

\* main calls backtrack_rec(root): line 487.
StartRec ==
  /\ Returned
  /\ "rec" \in Later \cap plan
  /\ mode' = "rec"
  /\ calls' = <<Frame(root)>>
  /\ max_calls' = IF Len(calls') > max_calls THEN Len(calls') ELSE max_calls
  /\ UNCHANGED << round, prev, duff >>
  /\ UNCHANGED << root, plan, stk, que, child, sibling, out, visit, expanded,
                  asserted, arg, res >>

\* Mutant of RecEnter: the invocation returns once it has emitted c.
RecEnter_return_after_output ==
  /\ mode = "rec"
  /\ calls # <<>>
  /\ Top(calls).pc = "entry"
  /\ LET c == Top(calls).c
     IN  /\ visit' = [visit EXCEPT !.rec = Append(@, c)]
         /\ IF reject(c)
            THEN /\ calls' = Pop(calls)
                 /\ UNCHANGED << mode, child, out, expanded, asserted >>
            ELSE LET a == accept(c)
                     fc == first_child(c, child)
                 IN  /\ asserted' = [asserted EXCEPT !.rec = Append(@, c)]
                     /\ IF ~a.pre
                        THEN /\ mode' = "aborted"
                             /\ UNCHANGED << calls, child, out, expanded >>
                        ELSE IF a.ret
                        THEN /\ out' = [out EXCEPT !.rec = Append(@, c)]
                             /\ calls' = Pop(calls)
                             /\ UNCHANGED << mode, child, expanded >>
                        ELSE /\ out' = out
                             /\ expanded' = [expanded EXCEPT !.rec = Append(@, c)]
                             /\ child' = fc.child
                             /\ mode' = mode
                             /\ IF fc.ret = nullptr
                                THEN calls' = Pop(calls)
                                ELSE LET c_child == Deref(fc.ret, fc.child, sibling)
                                     IN  calls' =
                                           Append([calls EXCEPT ![Len(calls)] =
                                                     [c |-> c, c_child |-> c_child,
                                                      pc |-> "call"]],
                                                  Frame(c_child))
  /\ max_calls' = IF Len(calls') > max_calls THEN Len(calls') ELSE max_calls
  /\ UNCHANGED << round, prev, duff >>
  /\ UNCHANGED << root, plan, stk, que, sibling, arg, res >>

\* Lines 361-373: from the entry of an invocation to its first recursive
\* call, or to its return.
RecEnter ==
  /\ mode = "rec"
  /\ calls # <<>>
  /\ Top(calls).pc = "entry"
  /\ LET c == Top(calls).c
     IN  /\ visit' = [visit EXCEPT !.rec = Append(@, c)]
         /\ IF reject(c)
            THEN /\ calls' = Pop(calls)
                 /\ UNCHANGED << mode, child, out, expanded, asserted >>
            ELSE LET a == accept(c)
                     fc == first_child(c, child)
                 IN  /\ asserted' = [asserted EXCEPT !.rec = Append(@, c)]
                     /\ IF ~a.pre
                        THEN /\ mode' = "aborted"
                             /\ UNCHANGED << calls, child, out, expanded >>
                        ELSE /\ out' = IF a.ret
                                       THEN [out EXCEPT !.rec = Append(@, c)]
                                       ELSE out
                             /\ expanded' = [expanded EXCEPT !.rec = Append(@, c)]
                             /\ child' = fc.child
                             /\ mode' = mode
                             /\ IF fc.ret = nullptr
                                THEN calls' = Pop(calls)
                                ELSE LET c_child == Deref(fc.ret, fc.child, sibling)
                                     IN  calls' =
                                           Append([calls EXCEPT ![Len(calls)] =
                                                     [c |-> c, c_child |-> c_child,
                                                      pc |-> "call"]],
                                                  Frame(c_child))
  /\ max_calls' = IF Len(calls') > max_calls THEN Len(calls') ELSE max_calls
  /\ UNCHANGED << round, prev, duff >>
  /\ UNCHANGED << root, plan, stk, que, sibling, arg, res >>

\* Mutant of RecNext: next_child(*p_child) for next_child(c_child), where
\* p_child points to child in the first pass of the loop and to sibling in
\* the later ones.
RecNext_deref_after_call ==
  /\ mode = "rec"
  /\ calls # <<>>
  /\ Top(calls).pc = "call"
  /\ LET f == Top(calls)
         p_child == IF f.c_child[Len(f.c_child)] = valid_chars[1]
                    THEN p_child_buf ELSE p_sibling_buf
         nc == next_child(Deref(p_child, child, sibling), sibling)
     IN  /\ sibling' = nc.sibling
         /\ IF nc.ret = out_of_range
            THEN /\ mode' = "failed"
                 /\ calls' = calls
            ELSE /\ mode' = mode
                 /\ IF nc.ret = nullptr
                    THEN calls' = Pop(calls)
                    ELSE LET c_child == Deref(nc.ret, child, nc.sibling)
                         IN  calls' =
                               Append([calls EXCEPT ![Len(calls)] =
                                         [f EXCEPT !.c_child = c_child]],
                                      Frame(c_child))
  /\ max_calls' = IF Len(calls') > max_calls THEN Len(calls') ELSE max_calls
  /\ UNCHANGED << round, prev, duff >>
  /\ UNCHANGED << root, plan, stk, que, child, out, visit, expanded, asserted,
                  arg, res >>

\* Lines 374, 369-373: the recursive call has returned; the next sibling
\* is generated and recursed into, or the invocation returns.
RecNext ==
  /\ mode = "rec"
  /\ calls # <<>>
  /\ Top(calls).pc = "call"
  /\ LET f == Top(calls)
         nc == next_child(f.c_child, sibling)
     IN  /\ sibling' = nc.sibling
         /\ IF nc.ret = out_of_range
            THEN /\ mode' = "failed"
                 /\ calls' = calls
            ELSE /\ mode' = mode
                 /\ IF nc.ret = nullptr
                    THEN calls' = Pop(calls)
                    ELSE LET c_child == Deref(nc.ret, child, nc.sibling)
                         IN  calls' =
                               Append([calls EXCEPT ![Len(calls)] =
                                         [f EXCEPT !.c_child = c_child]],
                                      Frame(c_child))
  /\ max_calls' = IF Len(calls') > max_calls THEN Len(calls') ELSE max_calls
  /\ UNCHANGED << round, prev, duff >>
  /\ UNCHANGED << root, plan, stk, que, child, out, visit, expanded, asserted,
                  arg, res >>

\* ------------------------------------------------------- backtrack_stk

\* Lines 413-419 and 460-466: the siblings pushed after `first`, in the
\* order pushed; each next_child is called on the element pushed last.
\* Gives the elements pushed, the content of `sibling` afterwards, and
\* whether valid_chars.at threw. (The arguments of the recursive call are
\* bound as values, so that each is evaluated once.)
RECURSIVE push_siblings(_, _, _)
push_siblings(last, pushed, sibling_buf) ==
  LET nc == next_child(last, sibling_buf)
  IN  IF nc.ret = nullptr
      THEN [pushed |-> pushed, sibling |-> nc.sibling, thrown |-> FALSE]
      ELSE IF nc.ret = out_of_range
           THEN [pushed |-> pushed, sibling |-> nc.sibling, thrown |-> TRUE]
           ELSE CHOOSE r \in { push_siblings(s, Append(p, s), b) :
                                  s \in {Deref(nc.ret, child, nc.sibling)},
                                  p \in {pushed},
                                  b \in {nc.sibling} } : TRUE

\* Mutant of StkExpand: the children pushed last sibling first, so that the
\* first child ends on top.
StkExpand_first_on_top(fc, sibling_buf) ==
  IF fc.ret = nullptr
  THEN [pushed |-> <<>>, sibling |-> sibling_buf, thrown |-> FALSE]
  ELSE LET first == Deref(fc.ret, fc.child, sibling_buf)
           ex == push_siblings(first, <<first>>, sibling_buf)
       IN  [ex EXCEPT !.pushed =
              [i \in 1..Len(ex.pushed) |-> ex.pushed[Len(ex.pushed) + 1 - i]]]

\* Mutant of StkExpand: the first child is pushed before the loop and once
\* more by it.
StkExpand_first_twice(fc, sibling_buf) ==
  IF fc.ret = nullptr
  THEN [pushed |-> <<>>, sibling |-> sibling_buf, thrown |-> FALSE]
  ELSE LET first == Deref(fc.ret, fc.child, sibling_buf)
       IN  push_siblings(first, <<first, first>>, sibling_buf)

\* Lines 409-420: what one iteration pushes on the stack for a top that
\* was not rejected, first pushed first.
StkExpand(fc, sibling_buf) ==
  IF fc.ret = nullptr
  THEN [pushed |-> <<>>, sibling |-> sibling_buf, thrown |-> FALSE]
  ELSE LET first == Deref(fc.ret, fc.child, sibling_buf)
       IN  push_siblings(first, <<first>>, sibling_buf)

\* Lines 396-407: the element one iteration examines (stk.top()) and the
\* stack after its stk.pop().
StkTake(s) == [top |-> Top(s), rest |-> Pop(s)]

\* main calls backtrack_stk(root): line 392.
StartStk ==
  /\ Returned
  /\ "stk" \in Later \cap plan
  /\ "rec" \notin Later \cap plan
  /\ mode' = "stk"
  /\ stk' = <<root>>
  /\ UNCHANGED << max_calls, round, prev, duff >>
  /\ UNCHANGED << root, plan, calls, que, child, sibling, out, visit, expanded,
                  asserted, arg, res >>

\* Mutant of StkStep: first_child is called before the reject test.
StkStep_child_before_reject ==
  /\ mode = "stk"
  /\ stk # <<>>
  /\ LET top == StkTake(stk).top
         rest == StkTake(stk).rest
         fc == first_child(top, child)
     IN  /\ visit' = [visit EXCEPT !.stk = Append(@, top)]
         /\ expanded' = [expanded EXCEPT !.stk = Append(@, top)]
         /\ child' = fc.child
         /\ IF reject(top)
            THEN /\ stk' = rest
                 /\ UNCHANGED << mode, sibling, out, asserted >>
            ELSE LET a == accept(top)
                     ex == StkExpand(fc, sibling)
                 IN  /\ asserted' = [asserted EXCEPT !.stk = Append(@, top)]
                     /\ IF ~a.pre
                        THEN /\ mode' = "aborted"
                             /\ UNCHANGED << stk, sibling, out >>
                        ELSE /\ out' = IF a.ret
                                       THEN [out EXCEPT !.stk = Append(@, top)]
                                       ELSE out
                             /\ sibling' = ex.sibling
                             /\ stk' = rest \o ex.pushed
                             /\ mode' = IF ex.thrown THEN "failed" ELSE mode
  /\ UNCHANGED << max_calls, round, prev, duff >>
  /\ UNCHANGED << root, plan, calls, que, arg, res >>

\* Lines 394-421: one iteration of the while loop.
StkStep ==
  /\ mode = "stk"
  /\ stk # <<>>
  /\ LET top == StkTake(stk).top
         rest == StkTake(stk).rest
     IN  /\ visit' = [visit EXCEPT !.stk = Append(@, top)]
         /\ IF reject(top)
            THEN /\ stk' = rest
                 /\ UNCHANGED << mode, child, sibling, out, expanded, asserted >>
            ELSE LET a == accept(top)
                     fc == first_child(top, child)
                     ex == StkExpand(fc, sibling)
                 IN  /\ asserted' = [asserted EXCEPT !.stk = Append(@, top)]
                     /\ IF ~a.pre
                        THEN /\ mode' = "aborted"
                             /\ UNCHANGED << stk, child, sibling, out, expanded >>
                        ELSE /\ out' = IF a.ret
                                       THEN [out EXCEPT !.stk = Append(@, top)]
                                       ELSE out
                             /\ expanded' = [expanded EXCEPT !.stk = Append(@, top)]
                             /\ child' = fc.child
                             /\ sibling' = ex.sibling
                             /\ stk' = rest \o ex.pushed
                             /\ mode' = IF ex.thrown THEN "failed" ELSE mode
  /\ UNCHANGED << max_calls, round, prev, duff >>
  /\ UNCHANGED << root, plan, calls, que, arg, res >>

\* ------------------------------------------------------- backtrack_que

\* Mutant of QueExpand: the sibling loop is missing, only the first child
\* is pushed.
QueExpand_first_only(fc, sibling_buf) ==
  IF fc.ret = nullptr
  THEN [pushed |-> <<>>, sibling |-> sibling_buf, thrown |-> FALSE]
  ELSE LET first == Deref(fc.ret, fc.child, sibling_buf)
       IN  [pushed |-> <<first>>, sibling |-> sibling_buf, thrown |-> FALSE]

\* Mutant of QueExpand: the first child is pushed before the loop and once
\* more by it.
QueExpand_first_twice(fc, sibling_buf) ==
  IF fc.ret = nullptr
  THEN [pushed |-> <<>>, sibling |-> sibling_buf, thrown |-> FALSE]
  ELSE LET first == Deref(fc.ret, fc.child, sibling_buf)
       IN  push_siblings(first, <<first, first>>, sibling_buf)

\* Lines 456-467: what one iteration pushes on the queue for a front that
\* was not rejected, first pushed first.
QueExpand(fc, sibling_buf) ==
  IF fc.ret = nullptr
  THEN [pushed |-> <<>>, sibling |-> sibling_buf, thrown |-> FALSE]
  ELSE LET first == Deref(fc.ret, fc.child, sibling_buf)
       IN  push_siblings(first, <<first>>, sibling_buf)

\* Mutant of QueTake: que.back() for que.front(), and the back popped.
QueTake_back(q) == [front |-> Top(q), rest |-> Pop(q)]

\* Lines 443-454: the element one iteration examines (que.front()) and the
\* queue after its que.pop().
QueTake(q) == [front |-> Head(q), rest |-> Tail(q)]

\* main calls backtrack_que(root): line 439.
StartQue ==
  /\ Returned
  /\ "que" \in Later \cap plan
  /\ "rec" \notin Later \cap plan
  /\ "stk" \notin Later \cap plan
  /\ mode' = "que"
  /\ que' = <<root>>
  /\ UNCHANGED << max_calls, round, prev, duff >>
  /\ UNCHANGED << root, plan, calls, stk, child, sibling, out, visit, expanded,
                  asserted, arg, res >>

\* Mutant of QueStep: the reject test is missing.
QueStep_no_reject ==
  /\ mode = "que"
  /\ que # <<>>
  /\ LET front == QueTake(que).front
         rest == QueTake(que).rest
         a == accept(front)
         fc == first_child(front, child)
         ex == QueExpand(fc, sibling)
     IN  /\ visit' = [visit EXCEPT !.que = Append(@, front)]
         /\ asserted' = [asserted EXCEPT !.que = Append(@, front)]
         /\ IF ~a.pre
            THEN /\ mode' = "aborted"
                 /\ UNCHANGED << que, child, sibling, out, expanded >>
            ELSE /\ out' = IF a.ret
                           THEN [out EXCEPT !.que = Append(@, front)]
                           ELSE out
                 /\ expanded' = [expanded EXCEPT !.que = Append(@, front)]
                 /\ child' = fc.child
                 /\ sibling' = ex.sibling
                 /\ que' = rest \o ex.pushed
                 /\ mode' = IF ex.thrown THEN "failed" ELSE mode
  /\ UNCHANGED << max_calls, round, prev, duff >>
  /\ UNCHANGED << root, plan, calls, stk, arg, res >>

\* Lines 441-468: one iteration of the while loop.
QueStep ==
  /\ mode = "que"
  /\ que # <<>>
  /\ LET front == QueTake(que).front
         rest == QueTake(que).rest
     IN  /\ visit' = [visit EXCEPT !.que = Append(@, front)]
         /\ IF reject(front)
            THEN /\ que' = rest
                 /\ UNCHANGED << mode, child, sibling, out, expanded, asserted >>
            ELSE LET a == accept(front)
                     fc == first_child(front, child)
                     ex == QueExpand(fc, sibling)
                 IN  /\ asserted' = [asserted EXCEPT !.que = Append(@, front)]
                     /\ IF ~a.pre
                        THEN /\ mode' = "aborted"
                             /\ UNCHANGED << que, child, sibling, out, expanded >>
                        ELSE /\ out' = IF a.ret
                                       THEN [out EXCEPT !.que = Append(@, front)]
                                       ELSE out
                             /\ expanded' = [expanded EXCEPT !.que = Append(@, front)]
                             /\ child' = fc.child
                             /\ sibling' = ex.sibling
                             /\ que' = rest \o ex.pushed
                             /\ mode' = IF ex.thrown THEN "failed" ELSE mode
  /\ UNCHANGED << max_calls, round, prev, duff >>
  /\ UNCHANGED << root, plan, calls, stk, arg, res >>

\* main returns EXIT_SUCCESS: line 490.
Finish ==
  /\ Returned
  /\ Later \cap plan = {}
  /\ mode' = "done"
  /\ UNCHANGED << max_calls, round, prev, duff >>
  /\ UNCHANGED << root, plan, calls, stk, que, child, sibling, out, visit,
                  expanded, asserted, arg, res >>

\* ------------------------------------------------------- single calls

\* One call of one function on one argument, outside any search.
InitFn ==
  /\ IsFnInput(arg)
  /\ res = NoRes
  /\ mode = "fn"
  /\ root = <<>>
  /\ plan = {}
  /\ calls = <<>>
  /\ stk = <<>>
  /\ que = <<>>
  /\ child = <<>>
  /\ sibling = <<>>
  /\ out = [s \in Searches |-> <<>>]
  /\ visit = [s \in Searches |-> <<>>]
  /\ expanded = [s \in Searches |-> <<>>]
  /\ asserted = [s \in Searches |-> <<>>]
  /\ max_calls = 0
  /\ round = 1
  /\ prev = [s \in Searches |-> <<>>]
  /\ duff_n = ulong_of(0)
  /\ duff_i = ulong_of(0)
  /\ duff_i0 = ulong_of(0)
  /\ duff_pc = "idle"
  /\ printed = <<>>

CallReject ==
  /\ mode = "fn"
  /\ res = NoRes
  /\ res' = [fn |-> "reject", ret |-> reject(arg)]
  /\ UNCHANGED << max_calls, round, prev, duff >>
  /\ UNCHANGED << root, plan, mode, calls, stk, que, child, sibling, out, visit,
                  expanded, asserted, arg >>

\* accept(arg); a failed assertion aborts, and no value is returned.
CallAccept ==
  /\ mode = "fn"
  /\ res = NoRes
  /\ LET a == accept(arg)
     IN  IF a.pre
         THEN /\ res' = [fn |-> "accept", ret |-> a.ret]
              /\ mode' = mode
         ELSE /\ res' = [fn |-> "accept", ret |-> "aborted"]
              /\ mode' = "aborted"
  /\ UNCHANGED << max_calls, round, prev, duff >>
  /\ UNCHANGED << root, plan, calls, stk, que, child, sibling, out, visit,
                  expanded, asserted, arg >>

\* first_child(arg): the pointer returned and, if not null, what it points
\* to on return.
CallFirstChild ==
  /\ mode = "fn"
  /\ res = NoRes
  /\ LET fc == first_child(arg, child)
     IN  /\ child' = fc.child
         /\ res' = [fn |-> "first_child", ret |-> fc.ret,
                    val |-> IF fc.ret = nullptr THEN <<>>
                            ELSE Deref(fc.ret, fc.child, sibling)]
  /\ UNCHANGED << max_calls, round, prev, duff >>
  /\ UNCHANGED << root, plan, mode, calls, stk, que, sibling, out, visit,
                  expanded, asserted, arg >>

\* next_child(arg). On an empty arg the assertion of line 331 fails: the
\* call aborts and nothing is returned. Otherwise: the pointer returned or
\* the exception thrown and, if a pointer that is not null, what it points
\* to on return.
CallNextChild ==
  /\ mode = "fn"
  /\ res = NoRes
  /\ IF arg = <<>>
     THEN /\ res' = [fn |-> "next_child", ret |-> "aborted", val |-> <<>>]
          /\ mode' = "aborted"
          /\ sibling' = sibling
     ELSE LET nc == next_child(arg, sibling)
          IN  /\ sibling' = nc.sibling
              /\ res' = [fn |-> "next_child", ret |-> nc.ret,
                         val |-> IF nc.ret = p_sibling_buf
                                 THEN Deref(nc.ret, child, nc.sibling)
                                 ELSE <<>>]
              /\ mode' = IF nc.ret = out_of_range THEN "failed" ELSE mode
  /\ UNCHANGED << max_calls, round, prev, duff >>
  /\ UNCHANGED << root, plan, calls, stk, que, child, out, visit,
                  expanded, asserted, arg >>

NextFn ==
  \/ CallReject
  \/ CallAccept
  \/ CallFirstChild
  \/ CallNextChild

SpecFn == InitFn /\ [][NextFn]_vars

Next ==
  \/ StartRec
  \/ RecEnter
  \/ RecNext
  \/ StartStk
  \/ StkStep
  \/ StartQue
  \/ QueStep
  \/ Finish

Spec == Init /\ [][Next]_vars

\* ------------------------------------------------- the searches run twice

\* main runs its searches a second time in the same process: what was
\* emitted is kept for comparison and the records of the searches start
\* afresh, while the static child and sibling stay as the first run left
\* them.
Again ==
  /\ mode = "done"
  /\ round = 1
  /\ round' = 2
  /\ prev' = out
  /\ mode' = "init"
  /\ out' = [s \in Searches |-> <<>>]
  /\ visit' = [s \in Searches |-> <<>>]
  /\ expanded' = [s \in Searches |-> <<>>]
  /\ asserted' = [s \in Searches |-> <<>>]
  /\ max_calls' = 0
  /\ UNCHANGED << root, plan, calls, stk, que, child, sibling, arg, res, duff >>

\* The roots of the searches run twice: those of Init generated from
\* RootChars.
InitTwice == Init /\ root \notin ExtraRoots

NextTwice ==
  \/ Next
  \/ Again

SpecTwice == InitTwice /\ [][NextTwice]_vars

\* The program is one thread that keeps running until main returns or it is
\* terminated by a failed assert or an uncaught exception.
FairSpec == Spec /\ WF_vars(Next)

\* ------------------------------------------------------- print_numbers
\* src/c_misc/duff_device.c

\* ULONG_MAX - d, for 0 <= d < Limb.
NearMax(d) == << Limb - 1, Limb - 1, Limb - 1, Limb - 1 - d >>

\* print_numbers(n) is at its loop test with the value i, the test being
\* true. From the call, i is 1, 2, 3 or 4 after the switch and 4 more
\* after each pass, so that at every test i is congruent to n + 1 modulo 4,
\* and every such i with 0 < i < n is reached, after (i - 1) \div 4 passes.
AtWhile(n, i) ==
  /\ ulong_less(ulong_of(0), i)
  /\ ulong_less(i, n)
  /\ ulong_mod_4(i) = ulong_mod_4(ulong_plus(n, 1))

\* Either print_numbers(n) has just been called, with n small or one of
\* the largest unsigned long; or, for n one of the largest, it is in its
\* last passes, having printed 0 .. i - 1: the 2^62 passes from the call to
\* there are not followed one by one.
InitDuff ==
  /\ \/ /\ duff_n \in {ulong_of(x) : x \in 0..MaxN}
                      \cup {NearMax(d) : d \in 0..MaxBack}
        /\ duff_i = ulong_of(0)
        /\ duff_pc = "switch"
     \/ /\ duff_n \in {NearMax(d) : d \in 0..MaxBack}
        /\ duff_i \in {NearMax(e) : e \in 0..(MaxBack + 8)}
        /\ AtWhile(duff_n, duff_i)
        /\ duff_pc = "while"
  /\ duff_i0 = duff_i
  /\ printed = <<>>
  /\ mode = "duff"
  /\ root = <<>>
  /\ plan = {}
  /\ calls = <<>>
  /\ stk = <<>>
  /\ que = <<>>
  /\ child = <<>>
  /\ sibling = <<>>
  /\ out = [s \in Searches |-> <<>>]
  /\ visit = [s \in Searches |-> <<>>]
  /\ expanded = [s \in Searches |-> <<>>]
  /\ asserted = [s \in Searches |-> <<>>]
  /\ arg = <<>>
  /\ res = NoRes
  /\ max_calls = 0
  /\ round = 1
  /\ prev = [s \in Searches |-> <<>>]

\* Lines 64-72: i = 0, the switch jumps to the case label of (n + 1) % 4,
\* from where 4, 3, 2 or 1 printf are executed, and the loop condition is
\* tested.
DuffSwitch ==
  /\ duff_pc = "switch"
  /\ LET label == ulong_mod_4(ulong_plus(duff_n, 1))
         k == IF label = 0 THEN 4 ELSE label
     IN  /\ printed' = printed \o printf_i_plus_plus(ulong_of(0), k)
         /\ duff_i' = ulong_plus(ulong_of(0), k)
         /\ duff_pc' = IF ulong_less(ulong_plus(ulong_of(0), k), duff_n)
                       THEN "while" ELSE "returned"
  /\ UNCHANGED << duff_n, duff_i0, root, plan, mode, calls, stk, que, child,
                  sibling, out, visit, expanded, asserted, arg, res,
                  max_calls, round, prev >>

\* Lines 68-72: one pass of the do-while body, four printf, and the test
\* of the loop condition. (No pass is followed once more than MaxN + 4
\* numbers have been printed.)
DuffWhile ==
  /\ duff_pc = "while"
  /\ Len(printed) <= MaxN + 4
  /\ printed' = printed \o printf_i_plus_plus(duff_i, 4)
  /\ duff_i' = ulong_plus(duff_i, 4)
  /\ duff_pc' = IF ulong_less(ulong_plus(duff_i, 4), duff_n)
                THEN "while" ELSE "returned"
  /\ UNCHANGED << duff_n, duff_i0, root, plan, mode, calls, stk, que, child,
                  sibling, out, visit, expanded, asserted, arg, res,
                  max_calls, round, prev >>

NextDuff ==
  \/ DuffSwitch
  \/ DuffWhile

SpecDuff == InitDuff /\ [][NextDuff]_vars

\* ---------------------------------------------------------------- claims

\* The alphabet of constraint (1): a-z and 0-9, and its order: a..z, 0..9.
Alphabet == (97..122) \cup (48..57)
AlphaRank(ch) == IF ch \in 97..122 THEN ch - 97 ELSE 26 + (ch - 48)

OverAlphabet(s) == \A i \in 1..Len(s) : s[i] \in Alphabet
NumDigits(s) == Cardinality({i \in 1..Len(s) : s[i] \in 48..57})
NumB(s) == Cardinality({i \in 1..Len(s) : s[i] = 98})

Range(seq) == {seq[i] : i \in 1..Len(seq)}

IsPrefix(p, s) == Len(p) <= Len(s) /\ \A i \in 1..Len(p) : p[i] = s[i]
Prefix(s, n) == [i \in 1..n |-> s[i]]

\* x comes first at the first position where x and y differ.
DiffersFirstAt(x, y, i) ==
  /\ i <= Len(x)
  /\ i <= Len(y)
  /\ x[i] # y[i]
  /\ \A j \in 1..(i - 1) : x[j] = y[j]

\* Lexicographic order by AlphaRank, a proper prefix first.
LexLess(x, y) ==
  \/ Len(x) < Len(y) /\ IsPrefix(x, y)
  \/ \E i \in 1..Len(x) :
       DiffersFirstAt(x, y, i) /\ AlphaRank(x[i]) < AlphaRank(y[i])

\* A proper prefix first, otherwise the later character first.
RevLess(x, y) ==
  \/ Len(x) < Len(y) /\ IsPrefix(x, y)
  \/ \E i \in 1..Len(x) :
       DiffersFirstAt(x, y, i) /\ AlphaRank(x[i]) > AlphaRank(y[i])

\* The passwords of constraints (1)-(5) that extend r.
Passwords(r) ==
  { s \in UNION { {r \o t : t \in StringsOfLen(Alphabet, n)} :
                    n \in 0..(MAX_LEN - Len(r)) } :
      /\ Len(s) >= MIN_LEN
      /\ Len(s) <= MAX_LEN
      /\ NumDigits(s) >= 2
      /\ NumB(s) >= 1 }

Done == mode = "done"
DoneAll == Done /\ plan = Searches

\* C1: once the three searches from a root have returned, they have
\* emitted the same set of candidates.
C1_SameSet ==
  DoneAll => /\ Range(out.rec) = Range(out.stk)
             /\ Range(out.stk) = Range(out.que)

\* The three searches returned, each emitted something, not all in the
\* same order.
C1_Witness ==
  /\ DoneAll
  /\ Len(root) < MAX_LEN
  /\ out.rec # <<>>
  /\ out.rec # out.stk
  /\ Range(out.rec) = Range(out.que)

\* C2: from a root over the alphabet of length at most MAX_LEN, a search
\* emits exactly the passwords that extend the root.
C2_ExactSet ==
  (Done /\ OverAlphabet(root) /\ Len(root) <= MAX_LEN)
    => \A s \in plan : Range(out[s]) = Passwords(root)

\* A search from a root shorter than MAX_LEN returned; it emitted some of
\* the candidates it visited and not others.
C2_Witness ==
  /\ DoneAll
  /\ OverAlphabet(root)
  /\ Len(root) < MAX_LEN
  /\ \E c \in Range(visit.rec) : c \in Range(out.rec)
  /\ \E c \in Range(visit.rec) : c \notin Range(out.rec) /\ ~reject(c)
  /\ \E c \in Range(visit.rec) : reject(c)

\* C3 as stated: backtrack_stk visits and emits in the order of
\* backtrack_rec.
C3_SameOrder ==
  DoneAll => /\ visit.stk = visit.rec
             /\ out.stk = out.rec

\* C3 amended: backtrack_stk visits and emits the candidates that
\* backtrack_rec does, a candidate before its descendants as well, but the
\* siblings from the last character of the alphabet to the first.
C3_ReverseSiblingOrder ==
  DoneAll => /\ Range(visit.stk) = Range(visit.rec)
             /\ Range(out.stk) = Range(out.rec)
             /\ Len(visit.stk) = Len(visit.rec)
             /\ Len(out.stk) = Len(out.rec)
             /\ \A i \in 1..(Len(visit.stk) - 1) :
                  RevLess(visit.stk[i], visit.stk[i + 1])
             /\ \A i \in 1..(Len(out.stk) - 1) :
                  RevLess(out.stk[i], out.stk[i + 1])

\* Both searches returned and their sequences differ.
C3_Witness ==
  /\ DoneAll
  /\ Len(out.stk) > 1
  /\ visit.stk # visit.rec
  /\ out.stk # out.rec

\* C4: backtrack_rec visits, and so emits, in lexicographic order: each
\* candidate is LexLess than the one visited next (LexLess is a strict
\* total order, so than every one visited later).
C4_RecLexOrder ==
  Done => /\ \A i \in 1..(Len(visit.rec) - 1) :
               LexLess(visit.rec[i], visit.rec[i + 1])
          /\ \A i \in 1..(Len(out.rec) - 1) :
               LexLess(out.rec[i], out.rec[i + 1])

\* backtrack_rec returned after visiting a candidate, its children, and
\* emitting several.
C4_Witness ==
  /\ Done
  /\ Len(out.rec) > 1
  /\ Len(visit.rec) > Len(valid_chars)

\* C5: backtrack_que examines, and so emits, in non-decreasing length.
C5_QueByLength ==
  /\ \A i \in 1..(Len(visit.que) - 1) :
       Len(visit.que[i]) <= Len(visit.que[i + 1])
  /\ \A i \in 1..(Len(out.que) - 1) :
       Len(out.que[i]) <= Len(out.que[i + 1])

\* backtrack_que has emitted candidates of three lengths.
C5_Witness ==
  /\ mode = "que"
  /\ \E i, j \in 1..Len(out.que) :
       Len(out.que[j]) = Len(out.que[i]) + 2

\* C6: a rejected candidate is not emitted, first_child is not called on
\* it, and no candidate below it is visited.
C6_RejectedIsPruned ==
  Done => \A s \in Searches :
            /\ \A c \in Range(out[s]) : ~reject(c)
            /\ \A c \in Range(expanded[s]) : ~reject(c)
            /\ \A v \in Range(visit[s]) :
                 \A n \in Len(root)..(Len(v) - 1) : ~reject(Prefix(v, n))

\* "99999" was visited by the three searches, and rejected: it was neither
\* emitted nor expanded.
C6_Witness ==
  /\ DoneAll
  /\ reject(<<57, 57, 57, 57, 57>>)
  /\ \A s \in Searches :
       /\ <<57, 57, 57, 57, 57>> \in Range(visit[s])
       /\ <<57, 57, 57, 57, 57>> \notin Range(out[s])
       /\ <<57, 57, 57, 57, 57>> \notin Range(expanded[s])

\* C7: accept's assertion never fails: accept is only called on
\* candidates that reject does not reject.
C7_AcceptAfterReject ==
  /\ mode # "aborted"
  /\ Done => \A s \in Searches :
               \A c \in Range(asserted[s]) :
                 /\ accept(c).pre
                 /\ ~reject(c)

\* The searches returned; some candidates were rejected and accept was
\* called on the others.
C7_Witness ==
  /\ DoneAll
  /\ \A s \in Searches :
       /\ \E c \in Range(visit[s]) : reject(c)
       /\ \E c \in Range(asserted[s]) : accept(c).ret
       /\ \E c \in Range(asserted[s]) : ~accept(c).ret

\* C8: from a root of length at most MAX_LEN, no candidate in a frame, on
\* the stack, in the queue or in a static buffer is longer than MAX_LEN.
C8_LengthBound ==
  Len(root) <= MAX_LEN =>
    /\ \A i \in 1..Len(calls) :
         Len(calls[i].c) <= MAX_LEN /\ Len(calls[i].c_child) <= MAX_LEN
    /\ \A i \in 1..Len(stk) : Len(stk[i]) <= MAX_LEN
    /\ \A i \in 1..Len(que) : Len(que[i]) <= MAX_LEN
    /\ Len(child) <= MAX_LEN
    /\ Len(sibling) <= MAX_LEN

\* In each search first_child has been refused to a candidate of length
\* MAX_LEN that the search generated.
C8_Witness ==
  /\ DoneAll
  /\ Len(root) < MAX_LEN
  /\ Len(child) = MAX_LEN
  /\ Len(sibling) = MAX_LEN
  /\ \A s \in Searches : \E c \in Range(expanded[s]) : Len(c) = MAX_LEN

\* C9: every emitted candidate is over the alphabet.
C9_AlphabetClosure ==
  Done => \A s \in Searches : \A c \in Range(out[s]) : OverAlphabet(c)

\* The searches from the root "b1?1" returned and emitted nothing.
C9_Witness ==
  /\ DoneAll
  /\ root = <<98, 49, 63, 49>>
  /\ \A s \in Searches : out[s] = <<>> /\ visit[s] = <<root>>

\* C10: reject(c) is true exactly when c has a character outside the
\* alphabet, or is at least MAX_LEN long with fewer than 2 digits or no b.
C10_RejectIff ==
  res.fn = "reject" =>
    (res.ret <=> \/ ~OverAlphabet(arg)
                 \/ /\ Len(arg) >= MAX_LEN
                    /\ (NumDigits(arg) < 2 \/ NumB(arg) < 1))

\* reject("abca") returned false.
C10_Witness ==
  /\ res.fn = "reject"
  /\ arg = <<97, 98, 99, 97>>
  /\ res.ret = FALSE

\* C15: emitting a candidate does not end a search. In each search every
\* child of an emitted candidate shorter than MAX_LEN is visited after it,
\* and a search has returned only with no invocation active, the stack
\* empty and the queue empty.
C15_EmitDoesNotStop ==
  Done =>
    /\ calls = <<>>
    /\ stk = <<>>
    /\ que = <<>>
    /\ \A s \in plan :
         \A c \in Range(out[s]) :
           Len(c) < MAX_LEN =>
             \A ch \in Alphabet :
               \E j \in 1..Len(visit[s]) :
                 /\ visit[s][j] = Append(c, ch)
                 /\ \E i \in 1..(j - 1) : visit[s][i] = c

\* The three searches from "b1b1" returned: each emitted the root first
\* and then some of its children.
C15_Witness ==
  /\ DoneAll
  /\ root = <<98, 49, 98, 49>>
  /\ \A s \in Searches :
       /\ out[s][1] = root
       /\ Len(out[s]) > 1
       /\ Len(visit[s]) = 1 + Len(valid_chars)

\* C19: from a root of length at most MAX_LEN the stack of backtrack_stk
\* never holds more than alphabet size x MAX_LEN candidates; it holds at
\* most one candidate, and alphabet size - 1 more for each character the
\* root is short of MAX_LEN.
C19_StackBound ==
  Len(root) <= MAX_LEN =>
    /\ Len(stk) <= Len(valid_chars) * MAX_LEN
    /\ Len(stk) <= (Len(valid_chars) - 1) * (MAX_LEN - Len(root)) + 1

\* From a root two characters short of MAX_LEN the stack holds the 35
\* siblings of a child of the root and that child's 36 children.
C19_Witness ==
  /\ mode = "stk"
  /\ Len(root) = MAX_LEN - 2
  /\ Len(stk) = (Len(valid_chars) - 1) * 2 + 1
  /\ Len(Top(stk)) = MAX_LEN

\* C16: from every root every search terminates: main gets to its return
\* statement, each search it called having returned.
C16_Terminates == <>Done

\* The three searches from "1b11" have returned, each after visiting the
\* root and its 36 children.
C16_Witness ==
  /\ DoneAll
  /\ root = <<49, 98, 49, 49>>
  /\ calls = <<>> /\ stk = <<>> /\ que = <<>>
  /\ \A s \in Searches : Len(visit[s]) = 1 + Len(valid_chars)

\* C20 as stated: when backtrack_rec has returned from a root of length at
\* most MAX_LEN that reject does not reject, the largest number of its
\* invocations active at once was MAX_LEN - length(root).
C20_DepthAsStated ==
  (Done /\ "rec" \in plan /\ Len(root) <= MAX_LEN /\ ~reject(root))
    => max_calls = MAX_LEN - Len(root)

\* C20 amended: that number was MAX_LEN - length(root) + 1: the invocation
\* for the root and one for each length from there to MAX_LEN.
C20_DepthPlusOne ==
  (Done /\ "rec" \in plan /\ Len(root) <= MAX_LEN /\ ~reject(root))
    => max_calls = MAX_LEN - Len(root) + 1

\* backtrack_rec has returned from a root of length MAX_LEN - 1 that is not
\* rejected: the invocation for the root and one for a child were active
\* at once.
C20_Witness ==
  /\ Done
  /\ plan = {"rec"}
  /\ Len(root) = MAX_LEN - 1
  /\ ~reject(root)
  /\ max_calls = 2
  /\ Len(visit.rec) = 1 + Len(valid_chars)

\* C17: when main has run its searches twice from the same root, each
\* search has emitted the second time the sequence it emitted the first
\* time, although child and sibling were not empty when it started.
C17_SameTwice ==
  (Done /\ round = 2) => \A s \in plan : out[s] = prev[s]

\* backtrack_stk has returned a second time; it emitted several candidates
\* each time, and the first run had left a child and a sibling of length
\* MAX_LEN in the static buffers.
C17_Witness ==
  /\ Done
  /\ round = 2
  /\ plan = {"stk"}
  /\ Len(prev.stk) > 1
  /\ Len(out.stk) > 1
  /\ Len(child) = MAX_LEN
  /\ Len(sibling) = MAX_LEN

\* Every loop test that print_numbers comes to from its call is one that
\* AtWhile describes, and 0 .. i - 1 have been printed by then.
DuffTestsFromCall ==
  (duff_pc = "while" /\ duff_i0 = ulong_of(0) /\ Len(printed) < Limb) =>
    /\ AtWhile(duff_n, duff_i)
    /\ duff_i = ulong_of(Len(printed))
    /\ \A k \in 1..Len(printed) : printed[k] = ulong_of(k - 1)

\* C18: for every n, print_numbers(n) prints 0, 1, ..., n in this order,
\* each once, and returns. What it prints from a state on goes up one by
\* one from the i of that state (0 at the call) and not beyond n; once n
\* has been printed it has returned; and it returns only then.
C18_PrintsZeroToN ==
  /\ printed # <<>> => printed[1] = duff_i0
  /\ \A k \in 1..(Len(printed) - 1) :
       /\ printed[k + 1] = ulong_plus(printed[k], 1)
       /\ ulong_less(printed[k], printed[k + 1])
  /\ \A k \in 1..Len(printed) : ~ulong_less(duff_n, printed[k])
  /\ (printed # <<>> /\ printed[Len(printed)] = duff_n) =>
       duff_pc = "returned"
  /\ duff_pc = "returned" =>
       (printed # <<>> /\ printed[Len(printed)] = duff_n)

\* What first_child and then next_child, called again and again on what
\* it made last, make from c: the children of c, in the order made.
Generated(c) ==
  LET fc == first_child(c, <<>>)
  IN  IF fc.ret = nullptr
      THEN <<>>
      ELSE push_siblings(fc.child, <<fc.child>>, <<>>).pushed

\* v is what first_child makes from c, or what next_child makes from a
\* child of c.
Made(v, c) ==
  \/ \E fc \in {first_child(c, <<>>)} : fc.ret # nullptr /\ fc.child = v
  \/ \E k \in 1..Len(valid_chars) :
       \E nc \in {next_child(Append(c, valid_chars[k]), <<>>)} :
         nc.ret = p_sibling_buf /\ nc.sibling = v

\* The candidate t has just been visited and first_child has given it a
\* child; g is what was made from t, and frontier ends with it.
EndsWithMade(s, frontier) ==
  (/\ mode = s
   /\ expanded[s] # <<>>
   /\ Top(expanded[s]) = Top(visit[s])
   /\ first_child(Top(visit[s]), <<>>).ret # nullptr)
  => \E g \in {Generated(Top(visit[s]))} :
       /\ Len(frontier) >= Len(g)
       /\ SubSeq(frontier, Len(frontier) - Len(g) + 1, Len(frontier)) = g

\* C21: the candidate a search recurses into or pushes is the child or
\* sibling that first_child or next_child made, whatever calls overwrote
\* the static buffers in between. The candidate backtrack_rec has just
\* recursed into is the copy held by the calling invocation, and one made
\* from that invocation's candidate; what an iteration of backtrack_stk or
\* backtrack_que has pushed is what was made from the candidate it took;
\* and a search that has returned has visited every candidate made from
\* those it called first_child on.
C21_UseWhatWasMade ==
  /\ (Len(calls) >= 2 /\ Top(calls).pc = "entry") =>
       /\ calls[Len(calls) - 1].c_child = Top(calls).c
       /\ Made(Top(calls).c, calls[Len(calls) - 1].c)
  /\ EndsWithMade("stk", stk)
  /\ EndsWithMade("que", que)
  /\ Done =>
       \A s \in plan :
         \A i \in 1..Len(expanded[s]) :
           first_child(expanded[s][i], <<>>).ret # nullptr =>
             \A g \in {Generated(expanded[s][i])} :
               \A k \in 1..Len(g) :
                 \E j \in 2..Len(visit[s]) : visit[s][j] = g[k]

\* backtrack_rec from "b12" is about to recurse into "b12b", the copy of
\* the sibling made from "b12a", after the invocation for "b12a" has
\* returned and left "b12aa" in child and "b12a9" in sibling.
C21_Witness ==
  /\ mode = "rec"
  /\ root = <<98, 49, 50>>
  /\ Len(calls) = 2
  /\ calls[1].c_child = <<98, 49, 50, 98>>
  /\ calls[2].c = <<98, 49, 50, 98>>
  /\ calls[2].pc = "entry"
  /\ child = <<98, 49, 50, 97, 97>>
  /\ sibling = <<98, 49, 50, 98>>

\* C22: a search visits no candidate twice, and so emits none twice.
C22_VisitedOnce ==
  Done =>
    \A s \in plan :
      /\ Cardinality(Range(visit[s])) = Len(visit[s])
      /\ Cardinality(Range(out[s])) = Len(out[s])

\* The three searches from "9999" have returned: each visited the root and
\* its 36 children and emitted "9999b".
C22_Witness ==
  /\ DoneAll
  /\ root = <<57, 57, 57, 57>>
  /\ \A s \in Searches :
       /\ Len(visit[s]) = 1 + Len(valid_chars)
       /\ out[s] = << <<57, 57, 57, 57, 98>> >>

\* C11: for a candidate reject does not reject, accept returns true exactly
\* when the candidate is MIN_LEN to MAX_LEN long, has at least 2 digits and
\* at least one b.
C11_AcceptIff ==
  (res.fn = "accept" /\ reject(arg) = FALSE) =>
    (res.ret <=> /\ Len(arg) \in MIN_LEN..MAX_LEN
                 /\ NumDigits(arg) >= 2
                 /\ NumB(arg) >= 1)

\* accept("b19") returned true.
C11_Witness ==
  /\ res.fn = "accept"
  /\ arg = <<98, 49, 57>>
  /\ res.ret = TRUE

\* C12: a call of first_child(c) returns null exactly when c is at least
\* MAX_LEN long; otherwise what it returns points to c followed by 'a'.
\* The call leaves c as it was.
C12_FirstChild ==
  [][ res'.fn = "first_child" =>
        /\ res'.ret = nullptr <=> Len(arg) >= MAX_LEN
        /\ res'.ret # nullptr => res'.val = Append(arg, 97)
        /\ arg' = arg ]_vars

\* first_child("b1") returned a pointer to "b1a".
C12_Witness ==
  /\ res.fn = "first_child"
  /\ arg = <<98, 49>>
  /\ res.ret = p_child_buf
  /\ res.val = <<98, 49, 97>>

\* C13: for a non-empty candidate c (its last character is in the
\* alphabet), next_child(c) returns null exactly when the last character
\* of c is '9'; otherwise what it returns is as long as c, equals c up to
\* the last character, and ends in the character of the alphabet that
\* follows the last character of c.
C13_NextChild ==
  (res.fn = "next_child" /\ arg # <<>> /\ arg[Len(arg)] \in Alphabet) =>
    /\ res.ret = nullptr <=> arg[Len(arg)] = 57
    /\ res.ret # nullptr =>
         /\ res.ret = p_sibling_buf
         /\ Len(res.val) = Len(arg)
         /\ \A i \in 1..(Len(arg) - 1) : res.val[i] = arg[i]
         /\ res.val[Len(arg)] \in Alphabet
         /\ AlphaRank(res.val[Len(arg)]) = AlphaRank(arg[Len(arg)]) + 1

\* next_child("az") returned a pointer to "a0".
C13_Witness ==
  /\ res.fn = "next_child"
  /\ arg = <<97, 122>>
  /\ res.ret = p_sibling_buf
  /\ res.val = <<97, 48>>

\* C14: next_child(c) never throws std::out_of_range, whatever the last
\* character of the non-empty string c is, and it returns null for a c
\* ending in the last character of the alphabet.
C14_NoOutOfRange ==
  (res.fn = "next_child" /\ arg # <<>>) =>
    /\ res.ret # out_of_range
    /\ mode # "failed"
    /\ arg[Len(arg)] = 57 => res.ret = nullptr

\* next_child("a?") returned a pointer to "aa": find gave npos, and npos + 1
\* is 0.
C14_Witness ==
  /\ res.fn = "next_child"
  /\ arg = <<97, 63>>
  /\ find(63) = NPOS
  /\ res.ret = p_sibling_buf
  /\ res.val = <<97, 97>>

====
